---- MODULE Spec2Model ----
(***************************************************************************)
(* Interactive linear-regression page (src/app1.py).                       *)
(*                                                                         *)
(* The page is a script that the host runs from top to bottom once when a  *)
(* session opens and again after every committed widget change.  One run   *)
(* is modelled by three steps, cut where the script touches the state      *)
(* shared by all sessions of the host process (the global random           *)
(* generator of np.random):                                                *)
(*     Begin   lines 33-56   session-state defaults, np.random.seed(42)    *)
(*     Draw    lines 57-58   x = linspace, y = 3x + 5 + normal noise       *)
(*     Finish  lines 64-138  number inputs, session-state update, the      *)
(*                           regression arithmetic, error bar and label    *)
(*                                                                         *)
(* Arithmetic is exact.  Every x-like and y-like quantity is kept as an    *)
(* integer numerator over the common denominator Scale = NPoints - 1 (the  *)
(* step of linspace(0, 10, NPoints) is 10/Scale); squared errors are       *)
(* numerators over Scale^2.  Slope and intercept inputs are whole numbers. *)
(***************************************************************************)
EXTENDS Integers, Sequences, FiniteSets

VARIABLES
    rng,            \* the process-wide generator of np.random: [seed, pos]
    pc,             \* pc[s]: where session s is in its current script run
    session_state,  \* session_state[s]: function from the keys present to values
    widget,         \* widget[s][k]: the number input of key k as the browser holds it
    typed,          \* typed[s][k]: last value the user typed for key k (history)
    entered,        \* entered[s][k]: last typed value the browser accepted (history)
    events,         \* number of user-input events delivered so far
    x, y,           \* script variables of each session (lines 57-58)
    slope, intercept,               \* lines 64-70
    y_pred, best, y_best_fit, total_error,      \* lines 77-80
    bar, label                      \* rendered error-bar colour and message kind

vars == <<rng, pc, session_state, widget, typed, entered, events,
          x, y, slope, intercept, y_pred, best, y_best_fit, total_error,
          bar, label>>

(***************************************************************************)
(* Bounds of the model and constants of the program.                       *)
(***************************************************************************)
NumSessions == 2
MaxEvents == 3
NPoints == 3

Sessions == 1..NumSessions
Solo == {1}
Scale == NPoints - 1

Seed == 42
XMin == 0
XMax == 10
TrueSlope == 3
TrueIntercept == 5
DefaultSlope == 1
DefaultIntercept == 1
SlopeMin == -10
SlopeMax == 10
InterceptMin == -20
InterceptMax == 20
GoodBelow == 50
AcceptableBelow == 200
BarGreenBelow == 200

Keys == {"slope", "intercept"}

\* Values a user may type into the two number inputs, out-of-range ones included.
SlopeInputs == {-11, 2, 3, 11}
InterceptInputs == {-21, 5, 6, 21}

(***************************************************************************)
(* Exact rational arithmetic.  A rational is [num, den] in lowest terms    *)
(* with den > 0; NaN (not a number) is [num |-> 0, den |-> 0].             *)
(***************************************************************************)
Abs(a) == IF a < 0 THEN -a ELSE a

RECURSIVE GCD(_, _)
GCD(a, b) == IF b = 0 THEN Abs(a) ELSE GCD(b, a % b)

Rat(n, d) ==
    LET g == GCD(Abs(n), Abs(d))
        sgn == IF d < 0 THEN -1 ELSE 1
    IN  [num |-> sgn * (n \div g), den |-> sgn * (d \div g)]

NaN == [num |-> 0, den |-> 0]

RECURSIVE SumSeq(_)
SumSeq(s) == IF s = << >> THEN 0 ELSE Head(s) + SumSeq(Tail(s))

(***************************************************************************)
(* The numpy calls of the script.                                          *)
(***************************************************************************)
\* np.linspace(lo, hi, n), as numerators over n - 1
Linspace(lo, hi, n) == [i \in 1..n |-> lo * (n - 1) + (i - 1) * (hi - lo)]

\* The k-th draw (k = 0, 1, ...) of a generator seeded with sd: a fixed
\* sequence determined by the seed, in whole units.
Stream(sd, k) == (((k * 5 + sd) * (k + 3)) % 7) - 3

\* The generator as the process starts: seeded by the system, not by the script.
Unseeded == [seed |-> 0, pos |-> 0]

\* Variant: seeding that records the seed but keeps the stream position.
SeedGenerator_KeepsPosition(g, sd) == [g EXCEPT !.seed = sd]

\* np.random.seed(sd) (line 56): the generator restarts the stream of sd
SeedGenerator(g, sd) == [seed |-> sd, pos |-> 0]

\* np.random.normal(0, 2, size = n) (line 58): the next n draws of generator g
Normal(g, n) == [i \in 1..n |-> Stream(g.seed, g.pos + i - 1)]

\* ... which leaves the generator n draws further
Advance(g, n) == [g EXCEPT !.pos = g.pos + n]

\* y = 3 * x + 5 + noise (line 58)
NoisyLine(xs, noise) ==
    [i \in DOMAIN xs |-> TrueSlope * xs[i] + (TrueIntercept + noise[i]) * Scale]

\* slope * x + intercept (line 77)
Line(xs, m, b) == [i \in DOMAIN xs |-> m * xs[i] + b * Scale]

\* Variant: the residuals summed without being squared.
TotalError_Unsquared(ys, yp) == SumSeq([i \in DOMAIN ys |-> ys[i] - yp[i]])

\* np.sum((y - y_pred) ** 2) (line 80)
TotalError(ys, yp) ==
    SumSeq([i \in DOMAIN ys |-> (ys[i] - yp[i]) * (ys[i] - yp[i])])

\* Variant: a fit through the uncentred moments, m = Sxy / Sxx, b = (Sy - m*Sx) / N.
PolyfitOutcomes_Uncentred(xs, ys) ==
    LET n   == Len(xs)
        Sx  == SumSeq(xs)
        Sy  == SumSeq(ys)
        Sxx == SumSeq([i \in DOMAIN xs |-> xs[i] * xs[i]])
        Sxy == SumSeq([i \in DOMAIN xs |-> xs[i] * ys[i]])
    IN  IF n * Sxx - Sx * Sx # 0
        THEN {[status |-> "ok",
               slope |-> Rat(Sxy, Sxx),
               intercept |-> Rat(Sy * Sxx - Sxy * Sx, n * Sxx)]}
        ELSE {[status |-> "raised", slope |-> NaN, intercept |-> NaN]}

\* np.polyfit(x, y, 1) (line 78): the outcomes the call can have.
\*   full rank: the least-squares line,
\*       m = (N*Sxy - Sx*Sy) / (N*Sxx - Sx^2),  b = (Sy - m*Sx) / N;
\*   all x equal to c # 0: the design matrix has rank 1; polyfit warns
\*       (RankWarning) and returns the minimum-norm solution of its
\*       column-scaled system, m = mean(y) / (2c), b = mean(y) / 2;
\*   all x equal to 0: the column scaling divides 0 by 0; the solver then
\*       raises LinAlgError or returns NaN coefficients, depending on the build.
\* The intercept is kept in the units of y (numerator over Scale).
PolyfitOutcomes(xs, ys) ==
    LET n   == Len(xs)
        Sx  == SumSeq(xs)
        Sy  == SumSeq(ys)
        Sxx == SumSeq([i \in DOMAIN xs |-> xs[i] * xs[i]])
        Sxy == SumSeq([i \in DOMAIN xs |-> xs[i] * ys[i]])
        D   == n * Sxx - Sx * Sx
        Mn  == n * Sxy - Sx * Sy
    IN  IF D # 0
        THEN {[status |-> "ok",
               slope |-> Rat(Mn, D),
               intercept |-> Rat(Sy * D - Mn * Sx, n * D)]}
        ELSE IF xs[1] # 0
        THEN {[status |-> "rank_warning",
               slope |-> Rat(Sy, 2 * n * xs[1]),
               intercept |-> Rat(Sy, 2 * n)]}
        ELSE {[status |-> "nan", slope |-> NaN, intercept |-> NaN],
              [status |-> "raised", slope |-> NaN, intercept |-> NaN]}

NoFit == [status |-> "none", slope |-> NaN, intercept |-> NaN]

(***************************************************************************)
(* The rendered feedback.                                                  *)
(***************************************************************************)
\* Variant: the bar still green at the threshold itself.
BarColor_Closed(te) ==
    IF te <= BarGreenBelow * Scale * Scale THEN "green" ELSE "red"

\* alt.condition(datum["Error Value"] < 200, green, red) (lines 117-121)
BarColor(te) ==
    IF te < BarGreenBelow * Scale * Scale THEN "green" ELSE "red"

\* Variant: the first threshold compared with <= instead of <.
FitLabel_ClosedGood(te) ==
    IF te <= GoodBelow * Scale * Scale THEN "success"
    ELSE IF te < AcceptableBelow * Scale * Scale THEN "warning"
    ELSE "error"

\* st.success / st.warning / st.error (lines 133-138)
FitLabel(te) ==
    IF te < GoodBelow * Scale * Scale THEN "success"
    ELSE IF te < AcceptableBelow * Scale * Scale THEN "warning"
    ELSE "error"

(***************************************************************************)
(* Session state and the two number inputs.                                *)
(***************************************************************************)
MinOf(k) == IF k = "slope" THEN SlopeMin ELSE InterceptMin
MaxOf(k) == IF k = "slope" THEN SlopeMax ELSE InterceptMax
DefaultOf(k) == IF k = "slope" THEN DefaultSlope ELSE DefaultIntercept
InputsOf(k) == IF k = "slope" THEN SlopeInputs ELSE InterceptInputs

\* if "slope" not in st.session_state: ... (lines 33-36)
InitSessionState(ss) ==
    [k \in Keys |-> IF k \in DOMAIN ss THEN ss[k] ELSE DefaultOf(k)]

\* Variant: the update of lines 73-74 left out.
UpdateSessionState_Dropped(ss, m, b) == ss

\* st.session_state.slope = slope; st.session_state.intercept = intercept
UpdateSessionState(ss, m, b) == [k \in Keys |-> IF k = "slope" THEN m ELSE b]

\* No number input has been rendered yet.
NoWidget == [registered |-> FALSE, id |-> 0, val |-> 0]

\* Variant: a number input without min_value and max_value.
Commit_Unchecked(w, v, lo, hi) == [w EXCEPT !.val = v]

\* The browser commits a typed value v to a rendered number input: a value
\* outside [min_value, max_value] is refused and the input keeps its value.
Commit(w, v, lo, hi) ==
    IF lo <= v /\ v <= hi THEN [w EXCEPT !.val = v] ELSE w

\* st.number_input(label, value = v, step, min_value, max_value) without a
\* key (lines 64-70).  The widget's identity is derived from the call's
\* arguments; only `value` varies here, so it stands for the identity.  A
\* call whose identity is the rendered widget's returns the value the
\* browser holds; any other call renders a new widget holding `value`.
NumberInput(w, v) ==
    IF w.registered /\ w.id = v
    THEN [ret |-> w.val, w |-> w]
    ELSE [ret |-> v, w |-> [registered |-> TRUE, id |-> v, val |-> v]]

\* best_slope * x + best_intercept (line 79), as rationals in the units of y
BestLine(xs, fit) ==
    [i \in DOMAIN xs |->
        IF fit.slope = NaN \/ fit.intercept = NaN THEN NaN
        ELSE Rat(fit.slope.num * fit.intercept.den * xs[i]
                     + fit.intercept.num * fit.slope.den,
                 fit.slope.den * fit.intercept.den)]

(***************************************************************************)
(* The steps of a session.                                                 *)
(***************************************************************************)
Init ==
    /\ rng = Unseeded
    /\ pc = [s \in Sessions |-> "start"]
    /\ session_state = [s \in Sessions |-> [k \in {} |-> 0]]
    /\ widget = [s \in Sessions |-> [k \in Keys |-> NoWidget]]
    /\ typed = [s \in Sessions |-> [k \in Keys |-> DefaultOf(k)]]
    /\ entered = [s \in Sessions |-> [k \in Keys |-> DefaultOf(k)]]
    /\ events = 0
    /\ x = [s \in Sessions |-> << >>]
    /\ y = [s \in Sessions |-> << >>]
    /\ slope = [s \in Sessions |-> 0]
    /\ intercept = [s \in Sessions |-> 0]
    /\ y_pred = [s \in Sessions |-> << >>]
    /\ best = [s \in Sessions |-> NoFit]
    /\ y_best_fit = [s \in Sessions |-> << >>]
    /\ total_error = [s \in Sessions |-> 0]
    /\ bar = [s \in Sessions |-> "none"]
    /\ label = [s \in Sessions |-> "none"]

\* Lines 33-56: the defaults of a new session, then np.random.seed(42).
Begin(s) ==
    /\ pc[s] = "start"
    /\ session_state' = [session_state EXCEPT ![s] = InitSessionState(@)]
    /\ rng' = SeedGenerator(rng, Seed)
    /\ pc' = [pc EXCEPT ![s] = "seeded"]
    /\ UNCHANGED <<widget, typed, entered, events, x, y, slope, intercept, y_pred,
                   best, y_best_fit, total_error, bar, label>>

\* Lines 57-58: the dataset, its noise drawn from the process-wide generator.
Draw(s) ==
    /\ pc[s] = "seeded"
    /\ LET xs == Linspace(XMin, XMax, NPoints)
       IN  /\ x' = [x EXCEPT ![s] = xs]
           /\ y' = [y EXCEPT ![s] = NoisyLine(xs, Normal(rng, NPoints))]
    /\ rng' = Advance(rng, NPoints)
    /\ pc' = [pc EXCEPT ![s] = "drawn"]
    /\ UNCHANGED <<session_state, widget, typed, entered, events, slope, intercept,
                   y_pred, best, y_best_fit, total_error, bar, label>>

\* Lines 64-138: the two number inputs, the session-state update, the
\* regression arithmetic, the error bar and the message.  number_input
\* raises when its `value` is outside [min_value, max_value], and polyfit
\* may raise: an exception ends the run where it is thrown.
Finish(s) ==
    /\ pc[s] = "drawn"
    /\ LET ss == session_state[s]
           ns == NumberInput(widget[s]["slope"], ss["slope"])
           ni == NumberInput(widget[s]["intercept"], ss["intercept"])
           m  == ns.ret
           b  == ni.ret
           yp == Line(x[s], m, b)
           te == TotalError(y[s], yp)
       IN  IF ss["slope"] < SlopeMin \/ ss["slope"] > SlopeMax
           THEN /\ pc' = [pc EXCEPT ![s] = "failed"]
                /\ UNCHANGED <<session_state, widget, slope, intercept, y_pred,
                               best, y_best_fit, total_error, bar, label>>
           ELSE IF ss["intercept"] < InterceptMin \/ ss["intercept"] > InterceptMax
           THEN /\ pc' = [pc EXCEPT ![s] = "failed"]
                /\ widget' = [widget EXCEPT ![s]["slope"] = ns.w]
                /\ slope' = [slope EXCEPT ![s] = m]
                /\ UNCHANGED <<session_state, intercept, y_pred,
                               best, y_best_fit, total_error, bar, label>>
           ELSE
           /\ widget' = [widget EXCEPT ![s] =
                            [k \in Keys |-> IF k = "slope" THEN ns.w ELSE ni.w]]
           /\ slope' = [slope EXCEPT ![s] = m]
           /\ intercept' = [intercept EXCEPT ![s] = b]
           /\ session_state' = [session_state EXCEPT ![s] =
                                   UpdateSessionState(@, m, b)]
           /\ y_pred' = [y_pred EXCEPT ![s] = yp]
           /\ \E fit \in PolyfitOutcomes(x[s], y[s]) :
                IF fit.status = "raised"
                THEN /\ pc' = [pc EXCEPT ![s] = "failed"]
                     /\ UNCHANGED <<best, y_best_fit, total_error, bar, label>>
                ELSE /\ best' = [best EXCEPT ![s] = fit]
                     /\ y_best_fit' = [y_best_fit EXCEPT ![s] = BestLine(x[s], fit)]
                     /\ total_error' = [total_error EXCEPT ![s] = te]
                     /\ bar' = [bar EXCEPT ![s] = BarColor(te)]
                     /\ label' = [label EXCEPT ![s] = FitLabel(te)]
                     /\ pc' = [pc EXCEPT ![s] = "done"]
    /\ UNCHANGED <<rng, typed, entered, events, x, y>>

\* The user types v into the number input of key k and commits it.  A commit
\* that changes the widget's value makes the host rerun the script.
UserInput(s, k, v) ==
    /\ pc[s] = "done"
    /\ events < MaxEvents
    /\ LET w  == widget[s][k]
           w2 == Commit(w, v, MinOf(k), MaxOf(k))
       IN  /\ widget' = [widget EXCEPT ![s][k] = w2]
           /\ typed' = [typed EXCEPT ![s][k] = v]
           /\ entered' = IF w2.val = v THEN [entered EXCEPT ![s][k] = v]
                         ELSE entered
           /\ pc' = IF w2 # w THEN [pc EXCEPT ![s] = "start"] ELSE pc
    /\ events' = events + 1
    /\ UNCHANGED <<rng, session_state, x, y, slope, intercept, y_pred,
                   best, y_best_fit, total_error, bar, label>>

SetSlope(s) == \E v \in SlopeInputs : UserInput(s, "slope", v)

SetIntercept(s) == \E v \in InterceptInputs : UserInput(s, "intercept", v)

(***************************************************************************)
(* Specifications.                                                         *)
(*   Spec      one session on the host;                                    *)
(*   SpecHost  NumSessions sessions, their steps interleaved;              *)
(*   SpecFn    the arithmetic of lines 64-138 applied once to every        *)
(*             dataset and every in-range line of a bounded family.        *)
(***************************************************************************)
Next ==
    \E s \in Solo : Begin(s) \/ Draw(s) \/ Finish(s) \/ SetSlope(s) \/ SetIntercept(s)

Spec == Init /\ [][Next]_vars

NextHost ==
    \E s \in Sessions :
        Begin(s) \/ Draw(s) \/ Finish(s) \/ SetSlope(s) \/ SetIntercept(s)

SpecHost == Init /\ [][NextHost]_vars

FnXs == {0, 1, 2}
FnYs == {0, 10, 20}
FnSlopes == {-10, 0, 5, 10}
FnIntercepts == {-20, 0, 5, 10}

FnInit ==
    /\ rng = Advance(SeedGenerator(Unseeded, Seed), NPoints)
    /\ pc = [s \in Sessions |-> IF s \in Solo THEN "drawn" ELSE "start"]
    /\ \E m \in FnSlopes, b \in FnIntercepts :
          /\ session_state = [s \in Sessions |->
                IF s \in Solo THEN UpdateSessionState([k \in {} |-> 0], m, b)
                ELSE [k \in {} |-> 0]]
          /\ typed = [s \in Sessions |->
                IF s \in Solo THEN UpdateSessionState([k \in {} |-> 0], m, b)
                ELSE [k \in Keys |-> DefaultOf(k)]]
          /\ entered = typed
    /\ widget = [s \in Sessions |-> [k \in Keys |-> NoWidget]]
    /\ events = 0
    /\ \E xs \in [1..NPoints -> FnXs], ys \in [1..NPoints -> FnYs] :
          /\ x = [s \in Sessions |-> IF s \in Solo THEN xs ELSE << >>]
          /\ y = [s \in Sessions |-> IF s \in Solo THEN ys ELSE << >>]
    /\ slope = [s \in Sessions |-> 0]
    /\ intercept = [s \in Sessions |-> 0]
    /\ y_pred = [s \in Sessions |-> << >>]
    /\ best = [s \in Sessions |-> NoFit]
    /\ y_best_fit = [s \in Sessions |-> << >>]
    /\ total_error = [s \in Sessions |-> 0]
    /\ bar = [s \in Sessions |-> "none"]
    /\ label = [s \in Sessions |-> "none"]

NextFn == \E s \in Solo : Finish(s)

SpecFn == FnInit /\ [][NextFn]_vars

(***************************************************************************)
(* Properties.                                                             *)
(***************************************************************************)
InRange(v, lo, hi) == lo <= v /\ v <= hi

Finished(s) == pc[s] = "done"

\* The squared-error numerator that stands for a total error of r whole units.
Units(r) == r * Scale * Scale

\* C1: the message is decided by half-open bounds at 50 and 200: success
\* exactly below 50, warning exactly on [50, 200), error exactly from 200 on,
\* and exactly one of the three is shown.
C1_LabelHalfOpen ==
    \A s \in Solo : Finished(s) =>
        /\ label[s] \in {"success", "warning", "error"}
        /\ label[s] = "success" <=> total_error[s] < Units(50)
        /\ label[s] = "warning" <=>
              (Units(50) <= total_error[s] /\ total_error[s] < Units(200))
        /\ label[s] = "error" <=> total_error[s] >= Units(200)

\* A run whose total error is exactly 50 shows the warning.
C1_Witness ==
    \E s \in Solo :
        Finished(s) /\ total_error[s] = Units(50) /\ label[s] = "warning"

\* Squared error of the fitted line best[s] on the dataset of s, as the
\* numerator over den * den, with den the common denominator of the fit.
FitDen(s) ==
    LET q == best[s].slope.den
        r == best[s].intercept.den
    IN  (q * r) \div GCD(q, r)

FitSquaredError(s) ==
    LET L == FitDen(s)
        p == best[s].slope.num * (L \div best[s].slope.den)
        c == best[s].intercept.num * (L \div best[s].intercept.den)
    IN  SumSeq([i \in DOMAIN x[s] |->
            (L * y[s][i] - p * x[s][i] - c) * (L * y[s][i] - p * x[s][i] - c)])

DistinctXs(s) == \E i, j \in DOMAIN x[s] : x[s][i] # x[s][j]

\* C2: on a dataset with two distinct x-values the squared error of the
\* fitted line is at most the squared error of the user's line.
C2_BestFitOptimal ==
    \A s \in Solo : (Finished(s) /\ DistinctXs(s)) =>
        /\ best[s].status = "ok"
        /\ FitSquaredError(s) <= FitDen(s) * FitDen(s) * total_error[s]

\* A noisy dataset on which the user's line is strictly worse than the fit.
C2_Witness ==
    \E s \in Solo :
        /\ Finished(s) /\ DistinctXs(s)
        /\ 0 < FitSquaredError(s)
        /\ FitSquaredError(s) < FitDen(s) * FitDen(s) * total_error[s]

OnLine(s) ==
    \A i \in DOMAIN x[s] : y[s][i] = slope[s] * x[s][i] + intercept[s] * Scale

\* C3: the total squared error is never negative, and it is zero exactly
\* when the line passes through every point of the dataset.
C3_ErrorNonNegZeroIffOnLine ==
    \A s \in Solo : Finished(s) =>
        /\ total_error[s] >= 0
        /\ total_error[s] = 0 <=> OnLine(s)

\* A sloped line through every point of a dataset, with total error 0.
C3_Witness ==
    \E s \in Solo :
        Finished(s) /\ slope[s] # 0 /\ DistinctXs(s) /\ OnLine(s)
        /\ total_error[s] = 0

\* C4: once the first run of a session has produced the dataset and the
\* fitted line, no later step (user input or rerun) changes them.
C4_DatasetAndFitFixed ==
    [][\A s \in Solo :
          /\ x[s] # << >> => x'[s] = x[s]
          /\ y[s] # << >> => y'[s] = y[s]
          /\ best[s] # NoFit => (best'[s] = best[s] /\ y_best_fit'[s] = y_best_fit[s])
      ]_vars

\* A rerun that followed a change of the slope has finished.
C4_Witness ==
    \E s \in Solo :
        /\ Finished(s) /\ events > 0
        /\ slope[s] # DefaultSlope
        /\ y[s] # << >> /\ best[s].status = "ok"

\* The dataset a session generates when it runs alone on the host.
AloneX == Linspace(XMin, XMax, NPoints)

AloneY == NoisyLine(AloneX, Normal(SeedGenerator(Unseeded, Seed), NPoints))

\* C5: with several sessions on one host, every session obtains the dataset
\* it would obtain alone, under every interleaving of their steps.
C5_SessionsIsolated ==
    \A s \in Sessions : y[s] # << >> => (x[s] = AloneX /\ y[s] = AloneY)

\* C6: the stored and the used slope lie in [-10, 10] and the stored and
\* the used intercept in [-20, 20], whatever the user types.
C6_LineWithinBounds ==
    \A s \in Solo :
        /\ "slope" \in DOMAIN session_state[s] =>
              InRange(session_state[s]["slope"], -10, 10)
        /\ "intercept" \in DOMAIN session_state[s] =>
              InRange(session_state[s]["intercept"], -20, 20)
        /\ InRange(slope[s], -10, 10)
        /\ InRange(intercept[s], -20, 20)

\* The user has typed an out-of-range slope after an accepted one, and the
\* page shows a finished run.
C6_Witness ==
    \E s \in Solo :
        /\ Finished(s)
        /\ typed[s]["slope"] > 10
        /\ entered[s]["slope"] # DefaultSlope
        /\ session_state[s]["slope"] <= 10

\* C7: at the end of every run the stored slope and intercept are the
\* values the user last entered (the defaults when nothing was entered).
C7_StoredIsLastEntered ==
    \A s \in Solo : Finished(s) =>
        \A k \in Keys : session_state[s][k] = entered[s][k]

AllXsEqual(s) == x[s] # << >> /\ ~DistinctXs(s)

C9_ErrorMatchesStoredLine ==
    \A s \in Solo : Finished(s) =>
        total_error[s] =
            SumSeq([i \in DOMAIN x[s] |->
                (y[s][i] - (session_state[s]["slope"] * x[s][i]
                            + session_state[s]["intercept"] * Scale))
              * (y[s][i] - (session_state[s]["slope"] * x[s][i]
                            + session_state[s]["intercept"] * Scale))])

\* A rerun after changes of both inputs has finished.
C9_Witness ==
    \E s \in Solo :
        /\ Finished(s) /\ events > 1
        /\ session_state[s]["slope"] # DefaultSlope
        /\ session_state[s]["intercept"] # DefaultIntercept
        /\ total_error[s] > 0

\* C10: the bar is red exactly when the message is the error one (total
\* error >= 200) and green exactly when it is success or warning.
C10_BarAgreesWithLabel ==
    \A s \in Solo : Finished(s) =>
        /\ bar[s] \in {"green", "red"}
        /\ bar[s] = "red" <=> label[s] = "error"
        /\ bar[s] = "green" <=> label[s] \in {"success", "warning"}
        /\ bar[s] = "red" <=> total_error[s] >= Units(200)

\* A run whose total error is exactly 200 shows a red bar and the error message.
C10_Witness ==
    \E s \in Solo :
        Finished(s) /\ total_error[s] = Units(200)
        /\ bar[s] = "red" /\ label[s] = "error"

====
